---- MODULE Spec2Model ----
(***************************************************************************)
(* Model of the Bizimatchaitosarel scaffold:                               *)
(*   src/src/core/pipeline.py    Pipeline (__init__, run, get_status)      *)
(*   src/src/ai/claude_client.py ClaudeClient (generate_response,          *)
(*                               generate_code, generate_prd)              *)
(*   src/src/main.py             the FastAPI application and its routes    *)
(*                                                                         *)
(* Every operation of the three components is an `async def` without an   *)
(* await inside its body, so a call has two positions: the coroutine has   *)
(* been created ("pending") and its body has run to the end ("returned"    *)
(* or "raised").  Several callers (Tasks) create and run calls in any      *)
(* order.                                                                  *)
(***************************************************************************)
EXTENDS Naturals, Sequences, FiniteSets

\* ---------------------------------------------------------------- bounds
NumTasks == 2
MaxCalls == 3
MaxPromptLen == 1

\* ------------------------------------------------------ program constants
LogPrefixLen == 100
DefaultMaxTokens == 4000

Tasks == 1..NumTasks

Chars == {"a", "b"}

\* str values: the character sequences of length <= MaxPromptLen
Strs == UNION {[1..n -> Chars] : n \in 0..MaxPromptLen}

\* Arguments a caller can pass as `prompt`: a str, or None (the annotation
\* `prompt: str` is not enforced at run time).
StrArg(s) == [type |-> "str", val |-> s]
NoneArg == [type |-> "NoneType", val |-> <<>>]
PromptArgs == {StrArg(s) : s \in Strs} \cup {NoneArg}

Configs == {[debug |-> FALSE], [debug |-> TRUE]}

NoArg == [type |-> "none"]
NoRet == [type |-> "none"]
NoExc == "none"

\* ------------------------------------------------------------- pipeline.py

\* prompt[:100]
Slice(s, n) == SubSeq(s, 1, IF Len(s) < n THEN Len(s) ELSE n)

\* prompt[:100] raises TypeError on an object that is not subscriptable
Subscriptable(a) == a.type = "str"

Pipeline__init__(c) == [config |-> c, state |-> "initialized"]

\* RunResult with the first stage reported as started
RunResultStarted(prompt) ==
  [status |-> "not_implemented",
   prompt |-> prompt,
   stages |-> [prd_generation     |-> "running",
               task_decomposition |-> "pending",
               code_generation    |-> "pending",
               testing            |-> "pending",
               review             |-> "pending",
               deployment         |-> "pending"]]

RunResult(prompt) ==
  [status |-> "not_implemented",
   prompt |-> prompt,
   stages |-> [prd_generation     |-> "pending",
               task_decomposition |-> "pending",
               code_generation    |-> "pending",
               testing            |-> "pending",
               review             |-> "pending",
               deployment         |-> "pending"]]

\* RunSelf with run recording that it has started
RunSelfStarted(self) == [self EXCEPT !.state = "running"]

\* The fields of self once run has returned: run assigns none of them.
RunSelf(self) == self

GetStatusResult(self) == [state |-> self.state, config |-> self.config]

RunLogLine(prompt) ==
  [level |-> "INFO", logger |-> "core.pipeline", msg |-> Slice(prompt, LogPrefixLen)]

VARIABLES
  pipeline,     \* the Pipeline object: its fields config and state
  ctor_config,  \* the config the Pipeline was constructed with
  pc,           \* per task: "idle", "pending", "returned", "raised"
  op,           \* per task: the operation of its current call
  arg,          \* per task: the call's argument
  ret,          \* per task: the value the call returned
  exc,          \* per task: the exception the call raised
  outcomes,     \* per task: what client.messages.create did in this call
  log,          \* the records written through logging
  ncalls        \* calls created so far

vars == <<pipeline, ctor_config, pc, op, arg, ret, exc, outcomes, log, ncalls>>

\* -------------------------------------------------------- claude_client.py

DefaultModel == "claude-3-sonnet-20240229"

Languages == {"python", "go"}

\* system_prompt of generate_code / generate_prd; None for a bare call
NoSystemPrompt == [role |-> "none", language |-> "none"]
CodeSystemPrompt(language) == [role |-> "expert developer", language |-> language]
PrdSystemPrompt == [role |-> "product manager", language |-> "none"]

\* the keyword arguments of client.messages.create
ApiRequest(prompt, system_prompt, max_tokens, model) ==
  [model      |-> model,
   max_tokens |-> max_tokens,
   messages   |-> <<[role |-> "user", content |-> prompt]>>,
   system     |-> system_prompt]

GenerateResponseArgs(prompt, system_prompt) ==
  ApiRequest(prompt, system_prompt, DefaultMaxTokens, DefaultModel)

GenerateCodeArgs(prompt, language) ==
  GenerateResponseArgs(prompt, CodeSystemPrompt(language))

GeneratePrdArgs(prompt) == GenerateResponseArgs(prompt, PrdSystemPrompt)

\* What one call of client.messages.create can do: answer with a text block,
\* answer with no content block (content[0] raises IndexError), or raise.
UpstreamOutcomes ==
  {[kind |-> "text",  text |-> "generated", error |-> NoExc],
   [kind |-> "empty", text |-> "",          error |-> "IndexError"],
   [kind |-> "error", text |-> "",          error |-> "APIError"]}

GenerateLogLine(o) ==
  [level |-> "ERROR", logger |-> "ai.claude_client", msg |-> <<o.error>>]

GenerateOps == {"generate_response", "generate_code", "generate_prd"}

\* ------------------------------------------------------------------ main.py

\* A request path: its segments and whether it ends in a slash ("/" is the
\* path without segments).
Path(segs, slash) == [segs |-> segs, slash |-> slash]
RootPath == Path(<<>>, FALSE)

\* The routes FastAPI(...) registers itself (openapi_url, docs_url,
\* swagger_ui_oauth2_redirect_url and redoc_url are left at their defaults).
DefaultRoutes ==
  {Path(<<"openapi.json">>, FALSE), Path(<<"docs">>, FALSE),
   Path(<<"docs", "oauth2-redirect">>, FALSE), Path(<<"redoc">>, FALSE)}

\* The routes the @app.get decorators register.
HandlerRoutes ==
  {RootPath, Path(<<"health">>, FALSE), Path(<<"api", "status">>, FALSE)}

Routes == DefaultRoutes \cup HandlerRoutes

root ==
  [message |-> "Bizimatchaitosarel API",
   description |-> "AI-powered development pipeline",
   status |-> "running",
   version |-> "1.0.0"]

\* health_check reporting another word
health_check_ok == [status |-> "ok"]

health_check == [status |-> "healthy"]

api_status ==
  [api |-> "online",
   database |-> "not_configured",
   redis |-> "not_configured",
   ai_services |-> "not_configured"]

Endpoint(path) ==
  IF path = RootPath THEN root
  ELSE IF path = Path(<<"health">>, FALSE) THEN health_check
  ELSE IF path = Path(<<"api", "status">>, FALSE) THEN api_status
  ELSE [document |-> path.segs]

\* the path with its trailing slash added or removed
ToggleSlash(path) == Path(path.segs, ~path.slash)

\* The answer of the application to GET path: the matching route's handler;
\* else a redirect when the path matches a route once its trailing slash is
\* toggled; else 404.
HandleGet(path) ==
  IF path \in Routes
    THEN [status_code |-> 200, body |-> Endpoint(path)]
  ELSE IF path # RootPath /\ ToggleSlash(path) \in Routes
    THEN [status_code |-> 307, body |-> [location |-> ToggleSlash(path)]]
  ELSE [status_code |-> 404, body |-> [detail |-> "Not Found"]]

\* the GET requests of the model
RequestPaths ==
  Routes
  \cup {Path(<<"health">>, TRUE), Path(<<"api", "status">>, TRUE),
        Path(<<"docs">>, TRUE)}
  \cup {Path(<<"nonexistent">>, FALSE), Path(<<"nonexistent">>, TRUE),
        Path(<<"api">>, FALSE), Path(<<"runs">>, FALSE),
        Path(<<"health", "status">>, FALSE)}

\* --------------------------------------------------------------- the system

Init ==
  /\ \E c \in Configs : ctor_config = c /\ pipeline = Pipeline__init__(c)
  /\ pc = [t \in Tasks |-> "idle"]
  /\ op = [t \in Tasks |-> "none"]
  /\ arg = [t \in Tasks |-> NoArg]
  /\ ret = [t \in Tasks |-> NoRet]
  /\ exc = [t \in Tasks |-> NoExc]
  /\ outcomes = [t \in Tasks |-> <<>>]
  /\ log = <<>>
  /\ ncalls = 0

\* A caller whose previous call (if any) has finished creates the coroutine
\* of a new call.
Create(t, o, a) ==
  /\ pc[t] \in {"idle", "returned", "raised"}
  /\ ncalls < MaxCalls
  /\ pc' = [pc EXCEPT ![t] = "pending"]
  /\ op' = [op EXCEPT ![t] = o]
  /\ arg' = [arg EXCEPT ![t] = a]
  /\ ret' = [ret EXCEPT ![t] = NoRet]
  /\ exc' = [exc EXCEPT ![t] = NoExc]
  /\ outcomes' = [outcomes EXCEPT ![t] = <<>>]
  /\ ncalls' = ncalls + 1
  /\ UNCHANGED <<pipeline, ctor_config, log>>

CallRun(t) == \E a \in PromptArgs : Create(t, "run", a)

CallGetStatus(t) == Create(t, "get_status", NoArg)

CallGenerateResponse(t) ==
  \E s \in Strs, sp \in {NoSystemPrompt, PrdSystemPrompt} :
    Create(t, "generate_response", GenerateResponseArgs(s, sp))

CallGenerateCode(t) ==
  \E s \in Strs, l \in Languages : Create(t, "generate_code", GenerateCodeArgs(s, l))

CallGeneratePrd(t) ==
  \E s \in Strs : Create(t, "generate_prd", GeneratePrdArgs(s))

CallGet(t) == \E p \in RequestPaths : Create(t, "GET", p)

\* Pipeline.run: the log line (prompt[:100]), then the try block, which
\* builds the result and returns it.  It reads and writes no field of self.
Run(t) ==
  /\ pc[t] = "pending" /\ op[t] = "run"
  /\ IF Subscriptable(arg[t])
       THEN /\ log' = Append(log, RunLogLine(arg[t].val))
            /\ ret' = [ret EXCEPT ![t] = RunResult(arg[t].val)]
            /\ pc' = [pc EXCEPT ![t] = "returned"]
            /\ pipeline' = RunSelf(pipeline)
            /\ exc' = exc
       ELSE /\ exc' = [exc EXCEPT ![t] = "TypeError"]
            /\ pc' = [pc EXCEPT ![t] = "raised"]
            /\ UNCHANGED <<pipeline, log, ret>>
  /\ UNCHANGED <<ctor_config, op, arg, outcomes, ncalls>>

\* Pipeline.get_status
GetStatus(t) ==
  /\ pc[t] = "pending" /\ op[t] = "get_status"
  /\ ret' = [ret EXCEPT ![t] = GetStatusResult(pipeline)]
  /\ pc' = [pc EXCEPT ![t] = "returned"]
  /\ UNCHANGED <<pipeline, ctor_config, op, arg, exc, outcomes, log, ncalls>>

\* ClaudeClient.generate_response (generate_code and generate_prd end in it):
\* one call of client.messages.create; its text is returned, any exception
\* is logged and raised again.
GenerateResponse(t) ==
  /\ pc[t] = "pending" /\ op[t] \in GenerateOps
  /\ \E o \in UpstreamOutcomes :
       /\ outcomes' = [outcomes EXCEPT ![t] = Append(@, o.kind)]
       /\ IF o.kind = "text"
            THEN /\ ret' = [ret EXCEPT ![t] = [text |-> o.text]]
                 /\ pc' = [pc EXCEPT ![t] = "returned"]
                 /\ UNCHANGED <<exc, log>>
            ELSE /\ log' = Append(log, GenerateLogLine(o))
                 /\ exc' = [exc EXCEPT ![t] = o.error]
                 /\ pc' = [pc EXCEPT ![t] = "raised"]
                 /\ ret' = ret
  /\ UNCHANGED <<pipeline, ctor_config, op, arg, ncalls>>

\* The application answers a GET request.
Get(t) ==
  /\ pc[t] = "pending" /\ op[t] = "GET"
  /\ ret' = [ret EXCEPT ![t] = HandleGet(arg[t])]
  /\ pc' = [pc EXCEPT ![t] = "returned"]
  /\ UNCHANGED <<pipeline, ctor_config, op, arg, exc, outcomes, log, ncalls>>

\* the callers of the Pipeline object
NextPipeline ==
  \E t \in Tasks :
    \/ CallRun(t)
    \/ CallGetStatus(t)
    \/ Run(t)
    \/ GetStatus(t)

\* the callers of the ClaudeClient object
NextClient ==
  \E t \in Tasks :
    \/ CallGenerateResponse(t)
    \/ CallGenerateCode(t)
    \/ CallGeneratePrd(t)
    \/ GenerateResponse(t)

\* the clients of the HTTP application
NextApp ==
  \E t \in Tasks :
    \/ CallGet(t)
    \/ Get(t)

Spec == Init /\ [][NextPipeline]_vars

SpecClient == Init /\ [][NextClient]_vars

SpecApp == Init /\ [][NextApp]_vars

\* ------------------------------------------------------------------- claims

\* C1: every call of run on a (str) prompt ends by returning, never by
\* raising, a result whose status is "not_implemented", whose prompt field is
\* the prompt passed in, and whose stages map has exactly the six keys
\* prd_generation, task_decomposition, code_generation, testing, review and
\* deployment, each with value "pending" -- whatever calls of run or
\* get_status came before it or are pending next to it.
C1_RunReturnsNotImplemented ==
  \A t \in Tasks :
    (op[t] = "run" /\ arg[t].type = "str" /\ pc[t] # "pending") =>
      /\ pc[t] = "returned"
      /\ ret[t].status = "not_implemented"
      /\ ret[t].prompt = arg[t].val
      /\ DOMAIN ret[t].stages =
           {"prd_generation", "task_decomposition", "code_generation",
            "testing", "review", "deployment"}
      /\ \A k \in DOMAIN ret[t].stages : ret[t].stages[k] = "pending"

\* A run on a non-empty prompt has returned as the third call or later, with
\* a finished get_status call next to it.
C1_Witness ==
  \E t, u \in Tasks :
    /\ op[t] = "run" /\ pc[t] = "returned" /\ arg[t].val # <<>>
    /\ op[u] = "get_status" /\ pc[u] = "returned"
    /\ ncalls >= 3

\* C2: for every valid prompt, run returns a run_id, and the run it returns
\* is in overall_status RUNNING with current_stage PRD_GENERATION.
C2_RunReturnsRunningRun ==
  \A t \in Tasks :
    (op[t] = "run" /\ arg[t].type = "str" /\ pc[t] # "pending") =>
      /\ pc[t] = "returned"
      /\ "run_id" \in DOMAIN ret[t]
      /\ "overall_status" \in DOMAIN ret[t]
      /\ ret[t].overall_status = "RUNNING"
      /\ "current_stage" \in DOMAIN ret[t]
      /\ ret[t].current_stage = "PRD_GENERATION"

\* C6: a stage's transient upstream error is absorbed by the retry policy:
\* a failed attempt is followed by another one, and an error is raised to
\* the caller only once three attempts (max_retries = 3) have been made.
C6_TransientErrorsRetried ==
  \A t \in Tasks :
    (op[t] \in GenerateOps /\ pc[t] # "pending") =>
      /\ (outcomes[t][1] # "text" => Len(outcomes[t]) >= 2)
      /\ (pc[t] = "raised" => Len(outcomes[t]) >= 3)

\* C8: an error that is fatal to a call of run reaches the caller as a
\* returned result with overall_status FAILED and a history that retains the
\* error; the caller of run never receives a thrown exception.
C8_FatalErrorReturnsFailed ==
  \A t \in Tasks :
    (op[t] = "run" /\ pc[t] # "pending") =>
      /\ pc[t] # "raised"
      /\ exc[t] = NoExc
      /\ (~Subscriptable(arg[t]) =>
            /\ "overall_status" \in DOMAIN ret[t]
            /\ ret[t].overall_status = "FAILED"
            /\ "history" \in DOMAIN ret[t])

\* C9 as stated: after any sequence of requests, GET / answers 200 with
\* message "Bizimatchaitosarel API" and status "running", GET /health 200
\* with status "healthy", GET /api/status 200 with api "online", and a GET
\* on any path other than these three answers 404.
C9_OnlyThreeRoutes ==
  \A t \in Tasks :
    (op[t] = "GET" /\ pc[t] = "returned") =>
      LET p == arg[t]
          r == ret[t]
          three == {[segs |-> <<>>, slash |-> FALSE],
                    [segs |-> <<"health">>, slash |-> FALSE],
                    [segs |-> <<"api", "status">>, slash |-> FALSE]}
      IN  /\ (p = [segs |-> <<>>, slash |-> FALSE] =>
                /\ r.status_code = 200
                /\ r.body.message = "Bizimatchaitosarel API"
                /\ r.body.status = "running")
          /\ (p = [segs |-> <<"health">>, slash |-> FALSE] =>
                r.status_code = 200 /\ r.body.status = "healthy")
          /\ (p = [segs |-> <<"api", "status">>, slash |-> FALSE] =>
                r.status_code = 200 /\ r.body.api = "online")
          /\ (p \notin three => r.status_code = 404)

\* C9 as amended: after any sequence of requests, GET / answers 200 with
\* message "Bizimatchaitosarel API" and status "running", GET /health 200
\* with status "healthy", GET /api/status 200 with api "online"; GET on
\* /openapi.json, /docs, /docs/oauth2-redirect and /redoc, the routes the
\* framework registers by default, answers 200; a GET on a path other than
\* "/" that becomes one of these seven routes when its trailing slash is
\* added or removed answers 307 with that route as location; a GET on any
\* other path answers 404.
C9_RoutesAndNotFound ==
  \A t \in Tasks :
    (op[t] = "GET" /\ pc[t] = "returned") =>
      LET p == arg[t]
          r == ret[t]
          other == [segs |-> p.segs, slash |-> ~p.slash]
          seven == {[segs |-> <<>>, slash |-> FALSE],
                    [segs |-> <<"health">>, slash |-> FALSE],
                    [segs |-> <<"api", "status">>, slash |-> FALSE],
                    [segs |-> <<"openapi.json">>, slash |-> FALSE],
                    [segs |-> <<"docs">>, slash |-> FALSE],
                    [segs |-> <<"docs", "oauth2-redirect">>, slash |-> FALSE],
                    [segs |-> <<"redoc">>, slash |-> FALSE]}
      IN  /\ (p = [segs |-> <<>>, slash |-> FALSE] =>
                /\ r.status_code = 200
                /\ r.body.message = "Bizimatchaitosarel API"
                /\ r.body.status = "running")
          /\ (p = [segs |-> <<"health">>, slash |-> FALSE] =>
                r.status_code = 200 /\ r.body.status = "healthy")
          /\ (p = [segs |-> <<"api", "status">>, slash |-> FALSE] =>
                r.status_code = 200 /\ r.body.api = "online")
          /\ (p \in seven => r.status_code = 200)
          /\ (p \notin seven /\ p.segs # <<>> /\ other \in seven =>
                r.status_code = 307 /\ r.body.location = other)
          /\ (p \notin seven /\ ~(p.segs # <<>> /\ other \in seven) =>
                r.status_code = 404)

\* GET /health has been answered with "healthy" as the third request or
\* later, next to a GET /nonexistent answered 404.
C9_Witness ==
  \E t, u \in Tasks :
    /\ op[t] = "GET" /\ pc[t] = "returned"
    /\ arg[t] = [segs |-> <<"health">>, slash |-> FALSE]
    /\ ret[t].status_code = 200 /\ ret[t].body.status = "healthy"
    /\ op[u] = "GET" /\ pc[u] = "returned"
    /\ arg[u] = [segs |-> <<"nonexistent">>, slash |-> FALSE]
    /\ ret[u].status_code = 404
    /\ ncalls >= 3

\* C10: run and get_status leave the Pipeline object as constructed: state
\* is "initialized" and config is the constructor's config in every state;
\* every get_status call returns {state: "initialized", config: c}; and two
\* run calls on the same prompt return the same result, whatever else was
\* called.
C10_PipelineUnchanged ==
  /\ pipeline.state = "initialized"
  /\ pipeline.config = ctor_config
  /\ \A t \in Tasks :
       (op[t] = "get_status" /\ pc[t] = "returned") =>
         ret[t] = [state |-> "initialized", config |-> ctor_config]
  /\ \A t, u \in Tasks :
       (/\ op[t] = "run" /\ pc[t] = "returned"
        /\ op[u] = "run" /\ pc[u] = "returned"
        /\ arg[t] = arg[u]) => ret[t] = ret[u]

\* get_status has returned as the third call or later while a run on
\* another task has returned.
C10_Witness ==
  \E t, u \in Tasks :
    /\ op[t] = "get_status" /\ pc[t] = "returned"
    /\ op[u] = "run" /\ pc[u] = "returned"
    /\ ncalls >= 3

====
